---- MODULE Spec2Model ----
(***************************************************************************)
(* Model of the Smart-Ai-Tools directory:                                  *)
(*   - the SmartPrompt controller (server/controllers/                     *)
(*     smartPromptController.js): createPrompt, getPrompts, getPromptById, *)
(*     updatePrompt, deletePrompt, ratePrompt;                             *)
(*   - the client ToolsProvider (contexts/ToolsContext): loadTools and its *)
(*     page cache.                                                         *)
(* The specifications of the module:                                       *)
(*   Spec        creation, fetch, update and delete of a prompt, each      *)
(*               handler split at its awaits so that requests interleave;  *)
(*   SpecRate    ratePrompt and deletePrompt, interleaving likewise;       *)
(*   SpecRateSeq ratePrompt calls that do not overlap;                     *)
(*   SpecList    the listing query of getPrompts over a drawn collection;  *)
(*   SpecClient  the ToolsProvider state container;                        *)
(*   SpecClientFair  the ToolsProvider while no request fails, with the    *)
(*               fairness of effects and responses.                        *)
(***************************************************************************)
EXTENDS Integers, Sequences, FiniteSets, TLC

VARIABLES
    store,      \* the SmartPrompt collection: prompt id -> stored document
    inflight,   \* the handlers suspended at their second await
    last,       \* the handler step just taken and the response it sent
    coll,       \* SpecList: the collection the listing query runs on
    listing,    \* SpecList: the last getPrompts request and its response
    ui,         \* SpecClient: the ToolsProvider state (useState cells)
    fetches,    \* SpecClient: api.get calls in flight, each with its closure
    effect,     \* SpecClient: whether the useEffect on loadTools is pending
    trace       \* SpecClient: the last loadTools step, for the properties

vars == <<store, inflight, last, coll, listing, ui, fetches, effect, trace>>
serverVars == <<store, inflight, last>>
listVars == <<coll, listing>>
clientVars == <<ui, fetches, effect, trace>>

(***************************************************************************)
(* Bounds and value sets                                                   *)
(***************************************************************************)
MaxInflight == 2

Users == {"u1", "u2"}
NoUser == "anonymous"           \* req.userId undefined: no authenticated id
PromptIds == {"p1"}
Visibilities == {"public", "private", "shared"}

Undefined == -1                 \* a body with no rating field
\* Numbers of req.body.rating are held in halves, so that 2.5 is 5:
\* 0, 1, 2.5, 6 and a missing field.
RatingInputs == {0, 2, 5, 12, Undefined}

Absent == "absent"              \* a field the body does not carry

(***************************************************************************)
(* Rational average                                                        *)
(***************************************************************************)
RECURSIVE GCD(_, _)
GCD(a, b) == IF b = 0 THEN a ELSE GCD(b, a % b)

Frac(n, d) == LET g == GCD(n, d) IN [num |-> n \div g, den |-> d \div g]

RECURSIVE SumRatings(_)
SumRatings(rs) == IF rs = <<>> THEN 0 ELSE Head(rs).rating + SumRatings(Tail(rs))

\* sum(ratings)/count(ratings), in halves, as a fraction in lowest terms
Mean(rs) == Frac(SumRatings(rs), Len(rs))

(***************************************************************************)
(* Documents                                                               *)
(***************************************************************************)
NewDoc(creator, visibility, sharedWith) ==
    [creator |-> creator, visibility |-> visibility, sharedWith |-> sharedWith,
     ratings |-> <<>>, averageRating |-> [num |-> 0, den |-> 1]]

Raters(rs) == {rs[i].userId : i \in 1..Len(rs)}

RaterIndex(rs, uid) ==
    IF \E i \in 1..Len(rs) : rs[i].userId = uid
    THEN CHOOSE i \in 1..Len(rs) :
             rs[i].userId = uid /\ \A j \in 1..(i - 1) : rs[j].userId # uid
    ELSE 0

\* SmartPrompt.methods.addRating: overwrite the rater's entry or append one,
\* then recompute the average over the whole list.
addRating(doc, uid, rating) ==
    LET i == RaterIndex(doc.ratings, uid)
        rs == IF i > 0 THEN [doc.ratings EXCEPT ![i].rating = rating]
              ELSE Append(doc.ratings, [userId |-> uid, rating |-> rating])
    IN [doc EXCEPT !.ratings = rs, !.averageRating = Mean(rs)]

\* The schema's rating bounds, validated by save(): a number in [1, 5].
SchemaValid(doc) ==
    \A i \in 1..Len(doc.ratings) :
        doc.ratings[i].rating # Undefined
        /\ doc.ratings[i].rating >= 2 /\ doc.ratings[i].rating <= 10

(***************************************************************************)
(* Handlers of smartPromptController.js                                    *)
(* A handler with two awaits is two actions: the part up to the second     *)
(* await (findById and the checks on what it found) and the part after it  *)
(* (the write and the response). Between the two the handler is an element *)
(* of inflight, holding what its closure holds.                            *)
(***************************************************************************)
CanStart == Cardinality(inflight) < MaxInflight

\* A record of one handler step: the request (op, id, userId; input holds
\* the rating of a rate request) and the response sent in the step (status
\* 0: none yet, the handler awaits).
Step(op, phase, id, uid, input, status, body) ==
    [op |-> op, phase |-> phase, id |-> id, userId |-> uid, input |-> input,
     status |-> status, body |-> body]

\* createPrompt: { ...req.body, creator: req.userId }, saved under a new id
createPrompt(uid, body) ==
    /\ \E id \in PromptIds \ DOMAIN store :
        LET doc == NewDoc(uid, body.visibility, body.sharedWith) IN
        /\ store' = [i \in DOMAIN store \cup {id} |->
                        IF i = id THEN doc ELSE store[i]]
        /\ last' = Step("create", "done", id, uid, <<>>, 201, <<doc>>)
    /\ UNCHANGED <<inflight, listVars, clientVars>>

\* Mutant: the access check without the negation on sharedWith
AccessDenied_SharedOnly(doc, uid) ==
    /\ doc.visibility = "private"
    /\ doc.creator # uid
    /\ uid \in doc.sharedWith

\* The access check of getPromptById
AccessDenied(doc, uid) ==
    /\ doc.visibility = "private"
    /\ doc.creator # uid
    /\ uid \notin doc.sharedWith

getPromptById(id, uid) ==
    /\ last' = IF id \notin DOMAIN store
               THEN Step("get", "done", id, uid, <<>>, 404, <<>>)
               ELSE IF AccessDenied(store[id], uid)
               THEN Step("get", "done", id, uid, <<>>, 403, <<>>)
               ELSE Step("get", "done", id, uid, <<>>, 200, <<store[id]>>)
    /\ UNCHANGED <<store, inflight, listVars, clientVars>>

\* Mutant: ownership checked on private prompts only
NotOwner_PrivateOnly(doc, uid) ==
    doc.creator # uid /\ doc.visibility = "private"

\* The ownership check of updatePrompt and deletePrompt
NotOwner(doc, uid) == doc.creator # uid

\* findByIdAndUpdate(id, { ...req.body }): every field the body carries
ApplyPatch(doc, patch) ==
    [doc EXCEPT
        !.visibility = IF patch.visibility = Absent THEN @ ELSE patch.visibility,
        !.creator = IF patch.creator = Absent THEN @ ELSE patch.creator,
        !.sharedWith = IF patch.sharedWith = <<>> THEN @ ELSE patch.sharedWith[1]]

\* updatePrompt up to its second await: findById, 404, ownership check
updatePromptFind(id, uid, patch) ==
    /\ UNCHANGED <<listVars, clientVars>>
    /\ IF id \notin DOMAIN store
       THEN /\ last' = Step("update", "find", id, uid, <<>>, 404, <<>>)
            /\ UNCHANGED <<store, inflight>>
       ELSE IF NotOwner(store[id], uid)
       THEN /\ last' = Step("update", "find", id, uid, <<>>, 403, <<>>)
            /\ UNCHANGED <<store, inflight>>
       ELSE /\ CanStart
            /\ inflight' = inflight \cup
                   {[pc |-> "update", id |-> id, userId |-> uid, patch |-> patch]}
            /\ last' = Step("update", "find", id, uid, <<>>, 0, <<>>)
            /\ UNCHANGED store

\* updatePrompt from findByIdAndUpdate on: the store applies the patch to
\* the document it holds now (null when it is gone) and the result is sent
updatePromptWrite(r) ==
    /\ r.pc = "update"
    /\ IF r.id \in DOMAIN store
       THEN LET doc == ApplyPatch(store[r.id], r.patch) IN
            /\ store' = [store EXCEPT ![r.id] = doc]
            /\ last' = Step("update", "write", r.id, r.userId, <<>>, 200, <<doc>>)
       ELSE /\ last' = Step("update", "write", r.id, r.userId, <<>>, 200, <<>>)
            /\ UNCHANGED store
    /\ inflight' = inflight \ {r}
    /\ UNCHANGED <<listVars, clientVars>>

\* deletePrompt up to its second await
deletePromptFind(id, uid) ==
    /\ UNCHANGED <<listVars, clientVars>>
    /\ IF id \notin DOMAIN store
       THEN /\ last' = Step("delete", "find", id, uid, <<>>, 404, <<>>)
            /\ UNCHANGED <<store, inflight>>
       ELSE IF NotOwner(store[id], uid)
       THEN /\ last' = Step("delete", "find", id, uid, <<>>, 403, <<>>)
            /\ UNCHANGED <<store, inflight>>
       ELSE /\ CanStart
            /\ inflight' = inflight \cup
                   {[pc |-> "delete", id |-> id, userId |-> uid]}
            /\ last' = Step("delete", "find", id, uid, <<>>, 0, <<>>)
            /\ UNCHANGED store

\* deletePrompt from prompt.remove() on
deletePromptWrite(r) ==
    /\ r.pc = "delete"
    /\ store' = [i \in DOMAIN store \ {r.id} |-> store[i]]
    /\ last' = Step("delete", "write", r.id, r.userId, <<>>, 200, <<>>)
    /\ inflight' = inflight \ {r}
    /\ UNCHANGED <<listVars, clientVars>>

\* The range check of ratePrompt: rating < 1 || rating > 5. A comparison
\* with undefined is false on both sides.
RatingRejected(rating) ==
    rating # Undefined /\ (rating < 2 \/ rating > 10)

\* ratePrompt up to its second await: findById, 404, range check
ratePromptFind(id, uid, rating) ==
    /\ UNCHANGED <<listVars, clientVars>>
    /\ IF id \notin DOMAIN store
       THEN /\ last' = Step("rate", "find", id, uid, <<rating>>, 404, <<>>)
            /\ UNCHANGED <<store, inflight>>
       ELSE IF RatingRejected(rating)
       THEN /\ last' = Step("rate", "find", id, uid, <<rating>>, 400, <<>>)
            /\ UNCHANGED <<store, inflight>>
       ELSE /\ CanStart
            /\ inflight' = inflight \cup
                   {[pc |-> "rate", id |-> id, userId |-> uid,
                     rating |-> rating, prompt |-> store[id]]}
            /\ last' = Step("rate", "find", id, uid, <<rating>>, 0, <<>>)
            /\ UNCHANGED store

\* Mutant: the rating is pushed onto the list, without addRating
ratePromptApply_Push(prompt, uid, rating) ==
    [prompt EXCEPT !.ratings = Append(@, [userId |-> uid, rating |-> rating])]

\* The call ratePrompt makes on the document it found
ratePromptApply(prompt, uid, rating) == addRating(prompt, uid, rating)

\* ratePrompt from prompt.addRating(req.userId, rating) on: the document
\* found earlier is changed in memory and its changed paths (ratings,
\* averageRating) are saved; a save that throws is answered with 400 by
\* the catch.
ratePromptSave(r) ==
    /\ r.pc = "rate"
    /\ LET doc == ratePromptApply(r.prompt, r.userId, r.rating) IN
       IF r.id \in DOMAIN store /\ SchemaValid(doc)
       THEN /\ store' = [store EXCEPT ![r.id].ratings = doc.ratings,
                                      ![r.id].averageRating = doc.averageRating]
            /\ last' = Step("rate", "save", r.id, r.userId, <<r.rating>>, 200, <<doc>>)
       ELSE /\ last' = Step("rate", "save", r.id, r.userId, <<r.rating>>, 400, <<>>)
            /\ UNCHANGED store
    /\ inflight' = inflight \ {r}
    /\ UNCHANGED <<listVars, clientVars>>

Bodies == [visibility : Visibilities, sharedWith : SUBSET Users]

\* Bodies of updatePrompt: any one of the fields, or none
AllPatches == [visibility : Visibilities \cup {Absent},
               creator : Users \cup {Absent},
               sharedWith : {<<>>} \cup {<<S>> : S \in SUBSET Users}]
FieldCount(patch) ==
    (IF patch.visibility = Absent THEN 0 ELSE 1)
    + (IF patch.creator = Absent THEN 0 ELSE 1)
    + (IF patch.sharedWith = <<>> THEN 0 ELSE 1)
Patches == {patch \in AllPatches : FieldCount(patch) \in {0, 1}}

AnyId == PromptIds \cup {"p0"}   \* p0 never resolves
Requesters == Users \cup {NoUser}

NoStep == Step("none", "done", "p0", NoUser, <<>>, 0, <<>>)
ListIdle == coll = <<>> /\ listing = <<>>
ClientIdle == ui = <<>> /\ fetches = <<>> /\ effect = FALSE /\ trace = <<>>

(***************************************************************************)
(* Spec: creation, single-record fetch, update and delete                  *)
(***************************************************************************)
Init ==
    /\ store = << >>
    /\ inflight = {}
    /\ last = NoStep
    /\ ListIdle /\ ClientIdle

Next ==
    \/ \E uid \in Users, body \in Bodies : createPrompt(uid, body)
    \/ \E id \in AnyId, uid \in Requesters : getPromptById(id, uid)
    \/ \E id \in AnyId, uid \in Users, patch \in Patches :
           updatePromptFind(id, uid, patch)
    \/ \E r \in inflight : updatePromptWrite(r)
    \/ \E id \in AnyId, uid \in Users : deletePromptFind(id, uid)
    \/ \E r \in inflight : deletePromptWrite(r)

Spec == Init /\ [][Next]_vars

(***************************************************************************)
(* SpecRate: ratings on a created prompt, with deletion                    *)
(***************************************************************************)
InitRate ==
    /\ store = [id \in PromptIds |-> NewDoc("u1", "public", {})]
    /\ inflight = {}
    /\ last = NoStep
    /\ ListIdle /\ ClientIdle

NextRate ==
    \/ \E id \in AnyId, uid \in Users, rating \in RatingInputs :
           ratePromptFind(id, uid, rating)
    \/ \E r \in inflight : ratePromptSave(r)
    \/ \E id \in AnyId, uid \in Users : deletePromptFind(id, uid)
    \/ \E r \in inflight : deletePromptWrite(r)

SpecRate == InitRate /\ [][NextRate]_vars

(***************************************************************************)
(* SpecRateSeq: ratePrompt calls one after the other                       *)
(***************************************************************************)
NextRateSeq ==
    \/ \E id \in AnyId, uid \in Users, rating \in RatingInputs :
           inflight = {} /\ ratePromptFind(id, uid, rating)
    \/ \E r \in inflight : ratePromptSave(r)

SpecRateSeq == InitRate /\ [][NextRateSeq]_vars

(***************************************************************************)
(* SpecList: getPrompts                                                    *)
(* Text is a sequence of characters, so that the case-insensitive regex    *)
(* of the search is computed and not assumed.                              *)
(***************************************************************************)
MaxDocs == 2
DefaultPage == 1
DefaultLimit == 12

LowerChar(c) == CASE c = "L" -> "l" [] c = "I" -> "i" [] c = "B" -> "b" [] OTHER -> c
LowerText(s) == [i \in 1..Len(s) |-> LowerChar(s[i])]

\* { $regex: search, $options: 'i' } on one string, for a search that holds
\* no regex metacharacter: the text contains the pattern, case ignored
RegexMatchI(text, pat) ==
    \E i \in 0..(Len(text) - Len(pat)) :
        SubSeq(LowerText(text), i + 1, i + Len(pat)) = LowerText(pat)

\* The fields of a stored prompt that the listing query reads
ListDoc(creator, visibility, sharedWith, raters, category, text) ==
    [creator |-> creator, visibility |-> visibility, sharedWith |-> sharedWith,
     ratings |-> [i \in 1..Len(raters) |-> [userId |-> raters[i], rating |-> 8]],
     category |-> category, title |-> text.title,
     description |-> text.description, tags |-> text.tags]

Texts ==
    { [title |-> <<"L", "i", "n">>, description |-> <<"a", "b">>, tags |-> <<>>],
      [title |-> <<"a", "b">>, description |-> <<"b", "l", "I">>, tags |-> <<>>],
      [title |-> <<"a", "b">>, description |-> <<"a", "b">>,
       tags |-> << <<"a">>, <<"L", "I", "b">> >>],
      [title |-> <<"l", "b", "i">>, description |-> <<"a", "b">>,
       tags |-> << <<"i", "l">> >>] }
Categories == {"Code", "Art"}

DocPool ==
    { ListDoc(c, v, s, r, g, x) :
        c \in Users, v \in Visibilities, s \in {{}, {"u2"}},
        r \in {<<>>, <<"u1">>}, g \in Categories, x \in Texts }
SamplePool ==
    { ListDoc("u1", "public", {}, <<>>, g, x) :
        g \in Categories,
        x \in {t \in Texts : Len(t.tags) # 1} }

\* Collections in creation order: one document of any shape, or up to
\* MaxDocs documents of the sample
Collections ==
    {<<>>} \cup {<<d>> : d \in DocPool}
    \cup UNION {[1..n -> SamplePool] : n \in 2..MaxDocs}

\* req.query: a parameter is <<>> when the request does not carry it;
\* visibility is a string or an array of strings
ScalarVisibility(v) == <<[array |-> FALSE, values |-> {v}]>>
ArrayVisibility(vs) == <<[array |-> TRUE, values |-> vs]>>
Queries ==
    [page : {<<>>, <<2>>},
     limit : {<<>>, <<1>>},
     category : {<<>>, <<"Code">>},
     search : {<<>>, <<<<"l", "i">>>>, <<<<"B">>>>},
     visibility : {<<>>, ScalarVisibility("private"),
                   ArrayVisibility({"public", "shared"})},
     userId : {<<>>, <<"u1">>},
     favorites : {<<>>, <<"u1">>},
     sharedWith : {<<>>, <<"u2">>},
     accessibleBy : {<<>>, <<"u2">>}]

Page(q) == IF q.page = <<>> THEN DefaultPage ELSE q.page[1]
Limit(q) == IF q.limit = <<>> THEN DefaultLimit ELSE q.limit[1]

Clause(field, op, value) == [field |-> field, op |-> op, value |-> value]

\* query.$or of the accessibleBy filter
AccessClauses(uid) ==
    << Clause("visibility", "eq", "public"),
       Clause("creator", "eq", uid),
       Clause("sharedWith", "eq", uid) >>

\* Mutant: the search without its tags clause
SearchClauses_NoTags(search) ==
    << Clause("title", "regex", search),
       Clause("description", "regex", search) >>

\* query.$or of the search
SearchClauses(search) ==
    << Clause("title", "regex", search),
       Clause("description", "regex", search),
       Clause("tags", "regex", search) >>

\* The query object getPrompts builds. Each field is <<>> when unset, and
\* the $or assigned for the search replaces the one assigned for accessibleBy.
BuildQuery(q) ==
    LET q0 == [visibility |-> <<>>, creator |-> <<>>, ratingsUserId |-> <<>>,
               sharedWith |-> <<>>, or |-> <<>>, category |-> <<>>]
        q1 == IF q.visibility # <<>>
              THEN [q0 EXCEPT !.visibility =
                       <<[in |-> q.visibility[1].array,
                          values |-> q.visibility[1].values]>>]
              ELSE q0
        q2 == IF q.userId # <<>> THEN [q1 EXCEPT !.creator = q.userId] ELSE q1
        q3 == IF q.favorites # <<>>
              THEN [q2 EXCEPT !.ratingsUserId = q.favorites] ELSE q2
        q4 == IF q.sharedWith # <<>>
              THEN [q3 EXCEPT !.sharedWith = q.sharedWith] ELSE q3
        q5 == IF q.accessibleBy # <<>>
              THEN [q4 EXCEPT !.or = <<AccessClauses(q.accessibleBy[1])>>] ELSE q4
        q6 == IF q.category # <<>> THEN [q5 EXCEPT !.category = q.category] ELSE q5
        q7 == IF q.search # <<>>
              THEN [q6 EXCEPT !.or = <<SearchClauses(q.search[1])>>] ELSE q6
    IN q7

\* The store's matching of one document against one clause: equality on an
\* array field holds when an element is equal, a regex on an array field
\* when an element matches
MatchClause(doc, c) ==
    CASE c.field = "visibility" -> doc.visibility = c.value
      [] c.field = "creator" -> doc.creator = c.value
      [] c.field = "sharedWith" -> c.value \in doc.sharedWith
      [] c.field = "title" -> RegexMatchI(doc.title, c.value)
      [] c.field = "description" -> RegexMatchI(doc.description, c.value)
      [] c.field = "tags" ->
             \E i \in 1..Len(doc.tags) : RegexMatchI(doc.tags[i], c.value)

\* SmartPrompt.find(query): every field that is set, and one clause of $or
Matches(doc, query) ==
    /\ query.visibility # <<>> => doc.visibility \in query.visibility[1].values
    /\ query.creator # <<>> => doc.creator = query.creator[1]
    /\ query.ratingsUserId # <<>> =>
           \E i \in 1..Len(doc.ratings) : doc.ratings[i].userId = query.ratingsUserId[1]
    /\ query.sharedWith # <<>> => query.sharedWith[1] \in doc.sharedWith
    /\ query.category # <<>> => doc.category = query.category[1]
    /\ query.or # <<>> =>
           \E k \in 1..Len(query.or[1]) : MatchClause(doc, query.or[1][k])

Ceil(a, b) == (a + b - 1) \div b                 \* Math.ceil(a / b), b > 0

\* The positions of s, last first, that are in the set keep
RECURSIVE NewestFirst(_, _)
NewestFirst(n, keep) ==
    IF n = 0 THEN <<>>
    ELSE IF n \in keep THEN <<n>> \o NewestFirst(n - 1, keep)
    ELSE NewestFirst(n - 1, keep)

\* .limit(limit).skip(skip) on n sorted matches: how many are returned
PageLen(n, skip, limit) ==
    IF n <= skip THEN 0 ELSE IF n - skip < limit THEN n - skip ELSE limit

\* getPrompts: the page of matches, newest first, and the counts
getPrompts(q) ==
    /\ listing = <<>>
    /\ LET query == BuildQuery(q)
           matched == {i \in 1..Len(coll) : Matches(coll[i], query)}
           sorted == NewestFirst(Len(coll), matched)
           skip == (Page(q) - 1) * Limit(q)
           totalCount == Cardinality(matched)
       IN listing' = <<[query |-> q,
                        matched |-> matched,
                        prompts |-> [i \in 1..PageLen(Len(sorted), skip, Limit(q))
                                        |-> coll[sorted[skip + i]]],
                        totalPages |-> Ceil(totalCount, Limit(q)),
                        totalCount |-> totalCount,
                        currentPage |-> Page(q)]>>
    /\ UNCHANGED <<coll, serverVars, clientVars>>

InitList ==
    /\ coll \in Collections
    /\ listing = <<>>
    /\ store = << >> /\ inflight = {} /\ last = NoStep
    /\ ClientIdle

NextList == \E q \in Queries : getPrompts(q)

SpecList == InitList /\ [][NextList]_vars

(***************************************************************************)
(* SpecClient: the ToolsProvider                                           *)
(* ui holds the useState cells. A handler's setState calls are one batch   *)
(* and one render. When a render changes a dependency of loadTools         *)
(* (filters, currentPage, cacheKey, toolsCache) the effect on loadTools is *)
(* pending, and it runs, with that render's closure, before anything else  *)
(* is handled. An api.get in flight keeps the closure of the loadTools     *)
(* call that issued it.                                                    *)
(***************************************************************************)
MaxFetches == 2
MaxPage == 2
PageLimit == 28

DefaultFilters ==
    [search |-> "", category |-> "all", pricing |-> "all", sort |-> "rating-desc"]
FilterValues == {DefaultFilters, [DefaultFilters EXCEPT !.category = "Audio"]}
Pages == 1..MaxPage

\* JSON.stringify({ ...filters, page: currentPage }): the values in the
\* order of the keys
CacheKey(filters, page) ==
    <<filters.search, filters.category, filters.pricing, filters.sort, page>>
CacheKeys == {CacheKey(f, pg) : f \in FilterValues, pg \in Pages}

\* The params of api.get('/api/tools'): undefined is <<>>
Params(filters, page) ==
    [category |-> IF filters.category # "all" THEN <<filters.category>> ELSE <<>>,
     search |-> IF filters.search # "" THEN <<filters.search>> ELSE <<>>,
     sort |-> filters.sort, page |-> page, limit |-> PageLimit]

\* response.data of the tools endpoint for these params, in one of the
\* states the directory can be in: the tools of that page and the page count
DirectoryStates == {1, 2}
ResponseData(params, d) ==
    [tools |-> <<[params |-> params, directory |-> d]>>, pages |-> d]

\* The bag of requests in flight: closure -> how many
NoFetches == [c \in {} |-> 0]
InFlight == {c \in DOMAIN fetches : fetches[c] > 0}
CountInFlight(c) == IF c \in DOMAIN fetches THEN fetches[c] ELSE 0
RECURSIVE SumOver(_, _)
SumOver(f, S) ==
    IF S = {} THEN 0
    ELSE LET c == CHOOSE x \in S : TRUE IN f[c] + SumOver(f, S \ {c})
TotalInFlight == SumOver(fetches, DOMAIN fetches)
AddFetch(c) ==
    [x \in DOMAIN fetches \cup {c} |-> CountInFlight(x) + (IF x = c THEN 1 ELSE 0)]
RemoveFetch(c) ==
    [x \in {y \in DOMAIN fetches : y # c \/ fetches[y] > 1} |->
        fetches[x] - (IF x = c THEN 1 ELSE 0)]

Closure(state) ==
    [filters |-> state.filters, currentPage |-> state.currentPage,
     cacheKey |-> CacheKey(state.filters, state.currentPage)]

Put(cache, key, entry) ==
    [k \in DOMAIN cache \cup {key} |-> IF k = key THEN entry ELSE cache[k]]

Trace(step, key) == [step |-> step, key |-> key]

\* Mutant: the cache is not consulted
CacheHit_Never(cache, key) == FALSE

\* if (toolsCache[cacheKey])
CacheHit(cache, key) == key \in DOMAIN cache

\* Mutant: toolsCache left out of the dependency array
LoadToolsDeps_NoCache == {"filters", "currentPage", "cacheKey"}

\* [filters, currentPage, cacheKey, toolsCache]: the dependencies of the
\* useCallback that makes loadTools
LoadToolsDeps == {"filters", "currentPage", "cacheKey", "toolsCache"}

\* A render after which loadTools is a new function, so that the effect on
\* [loadTools] runs: one whose batch set a dependency (cacheKey is computed
\* from filters and currentPage)
EffectRuns(written) ==
    (written \cup (IF written \cap {"filters", "currentPage"} # {}
                   THEN {"cacheKey"} ELSE {})) \cap LoadToolsDeps # {}

\* loadTools up to its await, called with the closure of the last render
\* (which holds the state as it is): from the cache, or api.get is issued
loadTools ==
    LET c == Closure(ui) IN
    /\ IF CacheHit(ui.toolsCache, c.cacheKey)
       THEN /\ ui' = [ui EXCEPT !.error = "null",
                                !.tools = ui.toolsCache[c.cacheKey].tools,
                                !.totalPages = ui.toolsCache[c.cacheKey].totalPages,
                                !.loading = FALSE]
            /\ UNCHANGED fetches
       ELSE /\ ui' = [ui EXCEPT !.loading = TRUE, !.error = "null"]
            /\ fetches' = AddFetch(c)
    /\ trace' = Trace("loadTools", c.cacheKey)
    /\ effect' = FALSE

\* useEffect(() => { loadTools() }, [loadTools])
loadToolsEffect ==
    /\ effect
    /\ loadTools
    /\ UNCHANGED <<serverVars, listVars>>

\* refresh: loadTools called by a consumer
refresh ==
    /\ ~effect
    /\ TotalInFlight < MaxFetches
    /\ loadTools
    /\ UNCHANGED <<serverVars, listVars>>

\* [cacheKey] in setToolsCache: the key of the closure that issued the request
StoreKey(c) == c.cacheKey

\* loadTools after its await, the request answered
fetchResolved(c, d) ==
    /\ ~effect
    /\ c \in InFlight
    /\ LET data == ResponseData(Params(c.filters, c.currentPage), d) IN
       ui' = [ui EXCEPT
                 !.toolsCache = Put(@, StoreKey(c),
                                    [tools |-> data.tools, totalPages |-> data.pages]),
                 !.tools = data.tools,
                 !.totalPages = data.pages,
                 !.loading = FALSE]
    /\ fetches' = RemoveFetch(c)
    /\ effect' = EffectRuns({"toolsCache", "tools", "totalPages", "loading"})
    /\ trace' = Trace("resolved", c.cacheKey)
    /\ UNCHANGED <<serverVars, listVars>>

\* loadTools after its await, the request failed
fetchRejected(c) ==
    /\ ~effect
    /\ c \in InFlight
    /\ ui' = [ui EXCEPT !.error = "Failed to load tools. Please try again.",
                        !.loading = FALSE]
    /\ fetches' = RemoveFetch(c)
    /\ trace' = Trace("rejected", c.cacheKey)
    /\ UNCHANGED <<effect, serverVars, listVars>>

\* setFilters called by a consumer with a filters object
setFilters(f) ==
    /\ ~effect
    /\ TotalInFlight < MaxFetches
    /\ ui' = [ui EXCEPT !.filters = f]
    /\ effect' = EffectRuns({"filters"})
    /\ trace' = Trace("setFilters", CacheKey(f, ui.currentPage))
    /\ UNCHANGED <<fetches, serverVars, listVars>>

\* setCurrentPage called by a consumer; the same page renders nothing
setCurrentPage(pg) ==
    /\ ~effect
    /\ TotalInFlight < MaxFetches
    /\ pg # ui.currentPage
    /\ ui' = [ui EXCEPT !.currentPage = pg]
    /\ effect' = EffectRuns({"currentPage"})
    /\ trace' = Trace("setCurrentPage", CacheKey(ui.filters, pg))
    /\ UNCHANGED <<fetches, serverVars, listVars>>

InitClient ==
    /\ ui = [tools |-> <<>>, loading |-> TRUE, error |-> "null",
             filters |-> DefaultFilters, toolsCache |-> <<>>,
             currentPage |-> 1, totalPages |-> 1]
    /\ fetches = NoFetches
    /\ effect = TRUE
    /\ trace = Trace("mount", CacheKey(DefaultFilters, 1))
    /\ store = << >> /\ inflight = {} /\ last = NoStep
    /\ ListIdle

NextClient ==
    \/ loadToolsEffect
    \/ refresh
    \/ \E c \in InFlight, d \in DirectoryStates : fetchResolved(c, d)
    \/ \E c \in InFlight : fetchRejected(c)
    \/ \E f \in FilterValues : setFilters(f)
    \/ \E pg \in Pages : setCurrentPage(pg)

SpecClient == InitClient /\ [][NextClient]_vars

\* A request in flight is answered with data
fetchSucceeds ==
    \E c \in InFlight, d \in DirectoryStates : fetchResolved(c, d)

\* The ToolsProvider while no request fails
NextClientFair ==
    \/ loadToolsEffect
    \/ refresh
    \/ fetchSucceeds
    \/ \E f \in FilterValues : setFilters(f)
    \/ \E pg \in Pages : setCurrentPage(pg)

\* The runs of the ToolsProvider in which every request is answered with
\* data: a pending effect runs (React runs the effects of a committed
\* render) and a request that was sent is answered. The consumer's calls
\* (setFilters, setCurrentPage, refresh) may come or not.
SpecClientFair ==
    /\ InitClient
    /\ [][NextClientFair]_vars
    /\ WF_vars(loadToolsEffect)
    /\ WF_vars(fetchSucceeds)

(***************************************************************************)
(* Claims on Spec                                                          *)
(***************************************************************************)
Found(id) == id \in DOMAIN store

\* C1: when updatePrompt or deletePrompt is called on an existing record by a
\* requester who is not its creator, the step that looks the record up
\* answers 403 and leaves the collection as it was, whatever the record's
\* visibility and whatever the patch holds.
C1_NonOwnerForbidden ==
    [][(/\ last'.op \in {"update", "delete"}
        /\ last'.phase = "find"
        /\ Found(last'.id)
        /\ last'.userId # store[last'.id].creator)
       => (last'.status = 403 /\ store' = store /\ inflight' = inflight)]_vars

\* A requester who is not the creator was refused an update of a public
\* record.
C1_Witness ==
    /\ last.op = "update" /\ last.status = 403
    /\ Found(last.id)
    /\ store[last.id].visibility = "public"
    /\ store[last.id].creator # last.userId

CanSee(doc, uid) == uid = doc.creator \/ uid \in doc.sharedWith

\* C2: getPromptById on an existing private record returns the record only
\* to its creator or to a member of sharedWith; every other requester, the
\* unauthenticated one included, gets 403 and no record.
C2_PrivateReadGuard ==
    (last.op = "get" /\ Found(last.id) /\ store[last.id].visibility = "private")
    => /\ last.status \in {200, 403}
       /\ last.status = 200 =>
              (CanSee(store[last.id], last.userId) /\ last.body = <<store[last.id]>>)
       /\ ~CanSee(store[last.id], last.userId) =>
              (last.status = 403 /\ last.body = <<>>)

\* An unauthenticated requester was refused a private record that is shared
\* with somebody.
C2_Witness ==
    /\ last.op = "get" /\ last.userId = NoUser /\ last.status = 403
    /\ Found(last.id)
    /\ store[last.id].visibility = "private"
    /\ store[last.id].sharedWith # {}

\* C3: getPromptById on an existing record of any visibility returns the
\* record if and only if it is public or the requester is its creator or in
\* sharedWith, and answers 403 otherwise.
C3_ReadIffPermitted ==
    (last.op = "get" /\ Found(last.id))
    => IF store[last.id].visibility = "public" \/ CanSee(store[last.id], last.userId)
       THEN last.status = 200 /\ last.body = <<store[last.id]>>
       ELSE last.status = 403 /\ last.body = <<>>

(***************************************************************************)
(* Claims on SpecRateSeq (C4) and SpecRate (C5, C10)                       *)
(***************************************************************************)
EntriesOf(rs, uid) == {i \in 1..Len(rs) : rs[i].userId = uid}

\* One entry per rater, and average * count = sum (the mean, stated without
\* the model's own division).
RatingsWellFormed(doc) ==
    /\ \A uid \in Raters(doc.ratings) : Cardinality(EntriesOf(doc.ratings, uid)) = 1
    /\ doc.ratings # <<>> =>
           doc.averageRating.num * Len(doc.ratings)
               = SumRatings(doc.ratings) * doc.averageRating.den

\* The list new is old with uid's entry overwritten in place or appended.
OverwriteOrAppend(old, new, uid, rating) ==
    IF uid \in Raters(old)
    THEN /\ Len(new) = Len(old)
         /\ \A i \in 1..Len(old) :
                new[i] = IF old[i].userId = uid
                         THEN [userId |-> uid, rating |-> rating] ELSE old[i]
    ELSE new = Append(old, [userId |-> uid, rating |-> rating])

\* The step is the successful save of the suspended rate request r.
RateSaved(r) ==
    /\ r.pc = "rate"
    /\ inflight' = inflight \ {r}
    /\ UNCHANGED <<listVars, clientVars>>
    /\ last'.op = "rate" /\ last'.phase = "save" /\ last'.status = 200

\* C4: every stored record has at most one rating entry per rater and an
\* average equal to the mean of its entries; and a successful ratePrompt on
\* the list it found overwrites the rater's entry or appends one.
C4_OneRatingPerRater ==
    /\ [](\A id \in DOMAIN store : RatingsWellFormed(store[id]))
    /\ [][\A r \in inflight :
             (RateSaved(r) /\ r.prompt.ratings = store[r.id].ratings)
             => OverwriteOrAppend(store[r.id].ratings, store'[r.id].ratings,
                                  r.userId, r.rating)]_vars

\* Two raters are stored, one of them after re-rating, with a fractional mean.
C4_Witness ==
    /\ last.op = "rate" /\ last.status = 200
    /\ \E id \in DOMAIN store :
        /\ Len(store[id].ratings) = 2
        /\ store[id].ratings[1].rating # store[id].ratings[2].rating
        /\ store[id].ratings[1].userId = last.userId

\* An integer in 1..5, in halves.
IntegerRating(rating) == rating \in {2, 4, 6, 8, 10}

\* C5: a ratePrompt on an existing record with a rating that is not an
\* integer in 1..5 is answered with 400 (never with success) and leaves the
\* collection as it was.
C5_BadRatingRejected ==
    [][(/\ last'.op = "rate"
        /\ Found(last'.id)
        /\ ~IntegerRating(last'.input[1]))
       => (store' = store /\ last'.status \in {0, 400})]_vars

\* C10: a successful ratePrompt keeps the entry of every other rater that
\* the collection holds when it saves, those saved since it read the record
\* included, and leaves an entry of its own rater.
C10_NoLostRating ==
    [][\A r \in inflight :
          RateSaved(r)
          => /\ r.userId \in Raters(store'[r.id].ratings)
             /\ Raters(store[r.id].ratings) \subseteq Raters(store'[r.id].ratings)]_vars

(***************************************************************************)
(* Claims on SpecList                                                      *)
(***************************************************************************)
Listed == listing # <<>>
Answer == listing[1]

Max(a, b) == IF a >= b THEN a ELSE b

\* The least k with k * limit >= count
CeilingOf(count, limit) ==
    CHOOSE k \in 0..count : k * limit >= count /\ \A j \in 0..(k - 1) : j * limit < count

\* C6: the totalPages of every listing response is max(1, ceil(totalCount /
\* limit)); a listing that matches nothing reports one page.
C6_TotalPagesAtLeastOne ==
    Listed =>
        Answer.totalPages =
            Max(1, CeilingOf(Answer.totalCount, Limit(Answer.query)))

Readable(doc, uid) ==
    doc.visibility = "public" \/ doc.creator = uid \/ uid \in doc.sharedWith

\* C7: when the request carries accessibleBy = U, every matched record is
\* public, or created by U, or shared with U, whatever the other filters,
\* a search included.
C7_AccessibleByEnforced ==
    (Listed /\ Answer.query.accessibleBy # <<>>) =>
        \A i \in Answer.matched : Readable(coll[i], Answer.query.accessibleBy[1])

\* The text holds the pattern somewhere, letter case ignored.
ContainsIgnoringCase(text, pat) ==
    \E pre, post \in 0..Len(text) :
        /\ pre + Len(pat) + post = Len(text)
        /\ \A k \in 1..Len(pat) : LowerChar(text[pre + k]) = LowerChar(pat[k])

FoundBySearch(doc, pat) ==
    \/ ContainsIgnoringCase(doc.title, pat)
    \/ ContainsIgnoringCase(doc.description, pat)
    \/ \E i \in 1..Len(doc.tags) : ContainsIgnoringCase(doc.tags[i], pat)

\* The record satisfies each of visibility, userId, favorites, sharedWith,
\* category and search that the request carries.
SatisfiesSupplied(doc, q) ==
    /\ q.visibility # <<>> => doc.visibility \in q.visibility[1].values
    /\ q.userId # <<>> => doc.creator = q.userId[1]
    /\ q.favorites # <<>> => q.favorites[1] \in Raters(doc.ratings)
    /\ q.sharedWith # <<>> => q.sharedWith[1] \in doc.sharedWith
    /\ q.category # <<>> => doc.category = q.category[1]
    /\ q.search # <<>> => FoundBySearch(doc, q.search[1])

Satisfying(q) == {i \in 1..Len(coll) : SatisfiesSupplied(coll[i], q)}

\* C8 as stated: for every listing request the matched records are exactly
\* those that satisfy each supplied filter among visibility, userId,
\* favorites, sharedWith, category and search.
C8_Original ==
    Listed => Answer.matched = Satisfying(Answer.query)

\* C8 as amended: every matched record satisfies each supplied filter among
\* visibility, userId, favorites, sharedWith, category and search; and when
\* the request carries no accessibleBy, every record that satisfies them is
\* matched (all records when none of them is supplied).
C8_FiltersConjoin ==
    Listed =>
        /\ Answer.matched \subseteq Satisfying(Answer.query)
        /\ Answer.query.accessibleBy = <<>> =>
               Answer.matched = Satisfying(Answer.query)

\* A request with category and search, no accessibleBy, on two records of
\* which one is matched.
C8_Witness ==
    /\ Listed
    /\ Answer.query.category # <<>> /\ Answer.query.search # <<>>
    /\ Answer.query.accessibleBy = <<>>
    /\ Len(coll) = 2
    /\ Cardinality(Answer.matched) = 1

(***************************************************************************)
(* Claims on SpecClient                                                    *)
(***************************************************************************)
CurrentKey == CacheKey(ui.filters, ui.currentPage)

\* The step adds exactly one request, issued for the key, to those in flight.
IssuesOne(key) ==
    \E c \in DOMAIN fetches' :
        /\ c.cacheKey = key
        /\ fetches' = AddFetch(c)

\* The step stores, under the key of the answered request c, data fetched
\* for the params of c, and leaves every other entry of the cache alone.
StoresUnderIssuedKey(c) ==
    /\ DOMAIN ui'.toolsCache = DOMAIN ui.toolsCache \cup {c.cacheKey}
    /\ \A k \in DOMAIN ui.toolsCache \ {c.cacheKey} :
           ui'.toolsCache[k] = ui.toolsCache[k]
    /\ \E d \in DirectoryStates :
           LET data == ResponseData(Params(c.filters, c.currentPage), d) IN
           ui'.toolsCache[c.cacheKey] = [tools |-> data.tools, totalPages |-> data.pages]

\* C9: a run of loadTools that finds the current key in toolsCache issues no
\* request and sets tools and totalPages from that entry; a run that finds
\* no entry issues exactly one request; and when a request succeeds its
\* response is stored under the key that was current when it was issued, the
\* other entries unchanged.
C9_CacheFirst ==
    [][/\ trace'.step = "loadTools" =>
            IF CurrentKey \in DOMAIN ui.toolsCache
            THEN /\ fetches' = fetches
                 /\ ui'.tools = ui.toolsCache[CurrentKey].tools
                 /\ ui'.totalPages = ui.toolsCache[CurrentKey].totalPages
                 /\ ui'.toolsCache = ui.toolsCache
            ELSE IssuesOne(CurrentKey) /\ ui'.toolsCache = ui.toolsCache
       /\ trace'.step = "resolved" =>
            \E c \in InFlight :
                fetches' = RemoveFetch(c) /\ StoresUnderIssuedKey(c)]_vars

\* loadTools has just served the current key from the cache, which holds an
\* entry stored for another key as well, while a request is in flight.
C9_Witness ==
    /\ trace.step = "loadTools"
    /\ CurrentKey \in DOMAIN ui.toolsCache
    /\ ui.tools = ui.toolsCache[CurrentKey].tools
    /\ Cardinality(DOMAIN ui.toolsCache) >= 2
    /\ TotalInFlight > 0

\* C11: when a response arrives for a request whose key is no longer the
\* current (filters + page) key, it is ignored: the step leaves the displayed
\* tools and totalPages as they were.
C11_StaleResponseIgnored ==
    [][(trace'.step = "resolved" /\ trace'.key # CurrentKey)
       => (ui'.tools = ui.tools /\ ui'.totalPages = ui.totalPages)]_vars

\* No filter or page change has just been made.
NoFurtherChange == trace.step \notin {"setFilters", "setCurrentPage"}

\* Every request has been answered and no effect is pending.
Quiescent == TotalInFlight = 0 /\ ~effect

\* The displayed tools and totalPages are the cache entry of the current
\* key, and loading is false.
ShowsCurrentEntry ==
    /\ CurrentKey \in DOMAIN ui.toolsCache
    /\ ui.tools = ui.toolsCache[CurrentKey].tools
    /\ ui.totalPages = ui.toolsCache[CurrentKey].totalPages
    /\ ui.loading = FALSE

\* C12: in every run in which no request fails and the filter and page
\* changes come to an end, whatever the order of the responses, from some
\* moment on every request is answered, no effect is pending, and the
\* displayed tools and totalPages are the cache entry of the current
\* (filters + page) key with loading false.
\* And at every moment at which every request is answered and no effect is
\* pending, they are that entry already.
C12_SettlesOnCurrentKey ==
    /\ <>[]NoFurtherChange => <>[](Quiescent /\ ShowsCurrentEntry)
    /\ [](Quiescent => ShowsCurrentEntry)

\* After a change of key, with the requests of both keys answered and
\* nothing left in flight, the effect that the last cache update scheduled
\* has served the current key from the cache.
C12_Witness ==
    /\ trace.step = "loadTools"
    /\ Quiescent
    /\ ShowsCurrentEntry
    /\ \E k \in DOMAIN ui.toolsCache \ {CurrentKey} :
           ui.toolsCache[k].tools # ui.tools

====
